---- MODULE Spec2Model ----
(***************************************************************************)
(* A model of ansible.parsing.DataLoader (lib/ansible/parsing/__init__.py). *)
(*                                                                         *)
(* Strings are sequences of atoms.  An atom is a piece of text without a   *)
(* "/" in it, or the separator "/" itself, so that startswith, endswith,   *)
(* split, join and normpath work on them as Python's do on characters:     *)
(* "/roles/web/mytasks" is << "/", "roles", "/", "web", "/", "my", "tasks" >>. *)
(***************************************************************************)
EXTENDS Integers, Sequences, FiniteSets, TLC

VARIABLES basedir, cache, heap, held, disk, opened, last

vars == << basedir, cache, heap, held, disk, opened, last >>

----------------------------------------------------------------------------
(* Strings and the os.path functions the loader calls (POSIX, Python 2).   *)

StartsWith(s, a) == Len(s) >= 1 /\ s[1] = a

\* s.endswith(t)
EndsWith(s, t) ==
    /\ Len(t) <= Len(s)
    /\ \A i \in 1..Len(t) : s[Len(s) - Len(t) + i] = t[i]

\* The process's home directory, working directory and the one byte string
\* atom that is not ASCII.
Home == << "/", "home", "/", "u" >>
Cwd  == << "/", "w#" >>
NonAsciiAtoms == { "w#" }

IsAscii(s) == \A i \in 1..Len(s) : s[i] \notin NonAsciiAtoms

\* ansible.parsing.splitter.unquote: one layer of surrounding quotes is
\* stripped when the first and the last character are the same quote.
Unquote(s) ==
    IF Len(s) > 1 /\ s[1] = s[Len(s)] /\ s[1] \in { "'", "\"" }
    THEN SubSeq(s, 2, Len(s) - 1)
    ELSE s

\* posixpath.join(a, b)
Join(a, b) ==
    IF StartsWith(b, "/") THEN b
    ELSE IF a = << >> \/ a[Len(a)] = "/" THEN a \o b
    ELSE a \o << "/" >> \o b

Join3(a, b, c) == Join(Join(a, b), c)

\* s.split('/')
RECURSIVE SplitFrom(_, _, _, _)
SplitFrom(s, i, cur, acc) ==
    IF i > Len(s) THEN Append(acc, cur)
    ELSE IF s[i] = "/" THEN SplitFrom(s, i + 1, << >>, Append(acc, cur))
    ELSE SplitFrom(s, i + 1, Append(cur, s[i]), acc)

Split(s) == SplitFrom(s, 1, << >>, << >>)

\* '/'.join(comps)
RECURSIVE SlashJoin(_)
SlashJoin(comps) ==
    IF comps = << >> THEN << >>
    ELSE IF Len(comps) = 1 THEN comps[1]
    ELSE comps[1] \o << "/" >> \o SlashJoin(Tail(comps))

\* the number of leading slashes posixpath.normpath keeps: 0, 1 or 2
InitialSlashes(s) ==
    IF ~StartsWith(s, "/") THEN 0
    ELSE IF Len(s) >= 2 /\ s[2] = "/" /\ ~(Len(s) >= 3 /\ s[3] = "/") THEN 2
    ELSE 1

\* the loop of posixpath.normpath over the components
RECURSIVE NormComps(_, _, _, _)
NormComps(comps, i, ini, new) ==
    IF i > Len(comps) THEN new
    ELSE LET comp == comps[i] IN
         IF comp = << >> \/ comp = << "." >> THEN NormComps(comps, i + 1, ini, new)
         ELSE IF \/ comp # << ".." >>
                 \/ (ini = 0 /\ new = << >>)
                 \/ (new # << >> /\ new[Len(new)] = << ".." >>)
              THEN NormComps(comps, i + 1, ini, Append(new, comp))
         ELSE IF new # << >>
              THEN NormComps(comps, i + 1, ini, SubSeq(new, 1, Len(new) - 1))
         ELSE NormComps(comps, i + 1, ini, new)

\* posixpath.normpath(s)
Normpath(s) ==
    IF s = << >> THEN << "." >>
    ELSE LET ini  == InitialSlashes(s)
             body == SlashJoin(NormComps(Split(s), 1, ini, << >>))
             path == [i \in 1..ini |-> "/"] \o body
         IN  IF path = << >> THEN << "." >> ELSE path

IsAbs(s) == StartsWith(s, "/")

\* posixpath.abspath(s)
Abspath(s) == Normpath(IF IsAbs(s) THEN s ELSE Join(Cwd, s))

\* s.rstrip('/')
RECURSIVE RStripSlash(_)
RStripSlash(s) ==
    IF s # << >> /\ s[Len(s)] = "/" THEN RStripSlash(SubSeq(s, 1, Len(s) - 1)) ELSE s

\* posixpath.dirname(s)
Dirname(s) ==
    LET slashes == { i \in 1..Len(s) : s[i] = "/" }
        i    == IF slashes = {} THEN 0 ELSE CHOOSE k \in slashes : \A j \in slashes : j <= k
        head == SubSeq(s, 1, i)
    IN  IF head # << >> /\ \E k \in 1..Len(head) : head[k] # "/"
        THEN RStripSlash(head) ELSE head

\* posixpath.expanduser(s): "~" and "~/..." name the home directory of the
\* invoking user; "~name" of a user the password database does not know is
\* returned as it is.
Expanduser(s) ==
    IF ~StartsWith(s, "~") THEN s
    ELSE LET slashes == { k \in 2..Len(s) : s[k] = "/" }
             i == IF slashes = {} THEN Len(s) + 1
                  ELSE CHOOSE k \in slashes : \A j \in slashes : k <= j
         IN  IF i = 2
             THEN LET r == RStripSlash(Home) \o SubSeq(s, i, Len(s))
                  IN  IF r = << >> THEN << "/" >> ELSE r
             ELSE s

\* ansible.utils.path.unfrackpath: the path with "~" expanded, symbolic
\* links resolved and normalised; the file system below has no links.
Unfrackpath(s) == Abspath(Expanduser(s))

----------------------------------------------------------------------------
(* Bounds of the model.                                                    *)

MaxHeld  == 2     \* documents the callers keep at one time
MaxMark  == 1     \* largest 0-based line and column of a YAML problem mark

----------------------------------------------------------------------------
(* The file system.  disk maps the absolute, normal path of every entry    *)
(* that is followed to what is there; any other path has no entry.         *)

PlayDir   == << "/", "play" >>
RoleDir   == << "/", "roles", "/", "web" >>
TasksDir  == RoleDir \o << "/", "tasks" >>
MyTasksDir == RoleDir \o << "/", "my", "tasks" >>

FileA == PlayDir \o << "/", "a.yml" >>
FileW == Cwd \o << "/", "a.yml" >>
DataFiles == { FileA, FileW }

TasksMain   == TasksDir \o << "/", "main.yml" >>
MyTasksMain == MyTasksDir \o << "/", "main.yml" >>
RoleTmpl    == RoleDir \o << "/", "templates", "/", "index.j2" >>
TasksTmpl   == TasksDir \o << "/", "index.j2" >>
Motd        == << "/", "etc", "/", "motd" >>
LayoutFiles == { TasksMain, MyTasksMain, RoleTmpl, TasksTmpl, Motd }

AllFiles == DataFiles \cup LayoutFiles

\* The texts a file or a caller's string can hold, by what json.loads and
\* the YAML loader make of them.
TJson(v) == [t |-> "json", v |-> v, marked |-> FALSE, line |-> 0, col |-> 0]
TYaml(v) == [t |-> "yaml", v |-> v, marked |-> FALSE, line |-> 0, col |-> 0]
TBad(l, c) == [t |-> "bad", v |-> 0, marked |-> TRUE, line |-> l, col |-> c]
TBadNoMark == [t |-> "bad", v |-> 0, marked |-> FALSE, line |-> 0, col |-> 0]

Texts ==
    { TJson(1), TYaml(2) }
    \cup { TBad(l, c) : l \in 0..MaxMark, c \in 0..MaxMark } \cup { TBadNoMark }

\* What a path holds: nothing, a directory, or a regular file with its
\* bytes: whether open() succeeds, whether the bytes carry the vault header,
\* whether the loader's password decrypts them, whether the plain bytes are
\* valid UTF-8, and the text they decode to.
Absent == [k |-> "absent"]
DirEnt == [k |-> "dir"]
File(readable, enc, key, utf8, text) ==
    [k |-> "file", readable |-> readable, enc |-> enc, key |-> key,
     utf8 |-> utf8, text |-> text]
Plain(text) == File(TRUE, FALSE, TRUE, TRUE, text)
Vault(text) == File(TRUE, TRUE, TRUE, TRUE, text)

Entry(d, p) == IF p \in DOMAIN d THEN d[p] ELSE Absent

\* p is a directory above the absolute normal path q
IsAbove(p, q) ==
    /\ Len(p) < Len(q)
    /\ SubSeq(q, 1, Len(p)) = p
    /\ (p = << "/" >> \/ q[Len(p) + 1] = "/")

\* The directories: the tree the followed files lie in, the working and the
\* home directory and what is above them.  Files come and go, the tree stays.
TreeDirs ==
    { << "/" >>, Cwd, Home }
    \cup UNION { { p \in { SubSeq(q, 1, i) : i \in 1..(Len(q) - 1) } : IsAbove(p, q) } :
                 q \in AllFiles \cup { Cwd, Home } }

IsDirAt(d, p) == p \in TreeDirs \/ Entry(d, p).k = "dir"

\* os.path.exists, os.path.isfile, os.path.isdir
Exists(d, p) ==
    /\ p # << >>
    /\ LET a == Abspath(p) IN Entry(d, a).k # "absent" \/ IsDirAt(d, a)
IsFilePath(d, p) == p # << >> /\ Entry(d, Abspath(p)).k = "file"
IsDirPath(d, p)  == p # << >> /\ IsDirAt(d, Abspath(p))

----------------------------------------------------------------------------
(* Documents.  A parsed document is a list of lists of numbers, [[v]] when *)
(* it comes from the parser: heap maps the identity of every live list to  *)
(* its items, the items of a document's root being the identities of its   *)
(* inner lists.                                                            *)

Ids == 1..(2 * (Cardinality(DataFiles) + MaxHeld))

\* n identities that h does not use: the smallest ones, in order (Fresh),
\* or the largest ones (FreshTop).  Which identity a new object gets is the
\* allocator's choice; the parser's objects are taken from the top.
RECURSIVE Fresh(_, _)
Fresh(h, n) ==
    IF n = 0 THEN << >>
    ELSE LET free == Ids \ DOMAIN h
             i    == CHOOSE k \in free : \A j \in free : k <= j
         IN  << i >> \o Fresh(h @@ (i :> << >>), n - 1)

RECURSIVE FreshTop(_, _)
FreshTop(h, n) ==
    IF n = 0 THEN << >>
    ELSE LET free == Ids \ DOMAIN h
             i    == CHOOSE k \in free : \A j \in free : k >= j
         IN  << i >> \o FreshTop(h @@ (i :> << >>), n - 1)

HasRoom(h, n) == Cardinality(Ids \ DOMAIN h) >= n

Range(f) == { f[x] : x \in DOMAIN f }

\* the lists a document is made of
Reach(h, r) == { r } \cup Range(h[r])

\* the value of a document
DocVal(h, r) == [i \in 1..Len(h[r]) |-> h[h[r][i]]]

\* the document [[v]] built by a parser: << heap, root >>
NewDoc(h, v) ==
    LET ids == FreshTop(h, 2)
    IN  << h @@ (ids[1] :> << ids[2] >>) @@ (ids[2] :> << v >>), ids[1] >>

\* copy.copy(r): a new root over the same inner lists
ShallowCopy(h, r) ==
    LET ids == Fresh(h, 1)
    IN  << h @@ (ids[1] :> h[r]), ids[1] >>

\* copy.deepcopy(r): a new root over new inner lists: << heap, root >>
DeepCopy(h, r) ==
    LET n   == Len(h[r])
        ids == Fresh(h, n + 1)
        kids == [i \in 1..n |-> ids[i + 1]]
        h1  == h @@ (ids[1] :> kids)
    IN  << h1 @@ [c \in Range(kids) |->
                    h[h[r][CHOOSE i \in 1..n : kids[i] = c]]], ids[1] >>

\* what reference counting frees: every list no root in roots reaches
Collect(h, roots) ==
    LET live == UNION { Reach(h, r) : r \in roots }
    IN  [i \in live |-> h[i]]

----------------------------------------------------------------------------
(* The loader's methods, as functions of the state they read.              *)

\* An argument that may be None: << >> is None, << x >> the value x.
None == << >>
Some(x) == << x >>

\* set_basedir: the new value of _basedir
SetBasedirValue(bd, b) == IF b # None THEN b[1] ELSE bd

\* path_dwim
PathDwimNoUnquote(bd, given) ==
    IF StartsWith(given, "/") THEN Abspath(given)
    ELSE IF StartsWith(given, "~") THEN Abspath(Expanduser(given))
    ELSE Abspath(Join(bd, given))

PathDwim(bd, given) ==
    LET g == Unquote(given)
    IN  IF StartsWith(g, "/") THEN Abspath(g)
        ELSE IF StartsWith(g, "~") THEN Abspath(Expanduser(g))
        ELSE Abspath(Join(bd, g))

\* path_exists, is_file, is_directory
PathExists(d, bd, path)  == Exists(d, PathDwim(bd, path))
IsFile(d, bd, path)      == IsFilePath(d, PathDwim(bd, path))
IsDirectory(d, bd, path) == IsDirPath(d, PathDwim(bd, path))

\* list_directory: os.listdir of a directory, the names of its entries
ListDirectory(d, bd, path) ==
    LET dir   == PathDwim(bd, path)
        skip  == IF dir = << "/" >> THEN 1 ELSE Len(dir) + 1
        below == { p \in DOMAIN d : d[p].k # "absent" /\ IsAbove(dir, p) }
    IN  IF ~IsDirPath(d, dir) THEN [ok |-> FALSE, error |-> "OSError"]
        ELSE [ok |-> TRUE,
              names |-> { Split(SubSeq(p, skip + 1, Len(p)))[1] : p \in below }
                        \cup (IF dir = << "/" >> THEN { Split(Tail(Cwd))[1] } ELSE {})]

\* err_obj, None or the object holding ansible_pos
NoPos == << >>

\* _handle_error: the AnsibleParserError raised for a YAML error
HandleErrorNoOffset(yaml_exc, file_name, show_content) ==
    [ok |-> FALSE, error |-> "AnsibleParserError",
     pos |-> IF yaml_exc.marked
             THEN << [file |-> file_name, line |-> yaml_exc.line, col |-> yaml_exc.col] >>
             ELSE NoPos,
     show_content |-> show_content]

HandleError(yaml_exc, file_name, show_content) ==
    [ok |-> FALSE, error |-> "AnsibleParserError",
     pos |-> IF yaml_exc.marked
             THEN << [file |-> file_name, line |-> yaml_exc.line + 1,
                      col |-> yaml_exc.col + 1] >>
             ELSE NoPos,
     show_content |-> show_content]

\* load: json.loads first, the YAML loader when that fails, _handle_error
\* when that fails too
LoadData(data, file_name, show_content) ==
    IF data.t = "json" THEN [ok |-> TRUE, v |-> data.v]
    ELSE IF data.t = "yaml" THEN [ok |-> TRUE, v |-> data.v]
    ELSE HandleError([marked |-> data.marked, line |-> data.line, col |-> data.col],
                     file_name, show_content)

StringName == << "<string>" >>

\* _get_file_contents: (data, show_content), or the error raised; read tells
\* whether f.read() ran
GetFileContentsShown(d, bd, file_name) ==
    LET e == Entry(d, Abspath(file_name))
    IN  IF file_name = << >> THEN [ok |-> FALSE, error |-> "AnsibleParserError", read |-> FALSE]
        ELSE IF ~PathExists(d, bd, file_name) \/ ~IsFile(d, bd, file_name)
             THEN [ok |-> FALSE, error |-> "AnsibleParserError", read |-> FALSE]
        ELSE IF ~e.readable THEN [ok |-> FALSE, error |-> "AnsibleParserError", read |-> FALSE]
        ELSE IF e.enc /\ ~e.key THEN [ok |-> FALSE, error |-> "AnsibleError", read |-> TRUE]
        ELSE IF ~e.utf8 THEN [ok |-> FALSE, error |-> "UnicodeDecodeError", read |-> TRUE]
        ELSE [ok |-> TRUE, data |-> e.text, show_content |-> TRUE, read |-> TRUE]

GetFileContents(d, bd, file_name) ==
    LET e == Entry(d, Abspath(file_name))
    IN  IF file_name = << >> THEN [ok |-> FALSE, error |-> "AnsibleParserError", read |-> FALSE]
        ELSE IF ~PathExists(d, bd, file_name) \/ ~IsFile(d, bd, file_name)
             THEN [ok |-> FALSE, error |-> "AnsibleParserError", read |-> FALSE]
        ELSE IF ~e.readable THEN [ok |-> FALSE, error |-> "AnsibleParserError", read |-> FALSE]
        ELSE IF e.enc /\ ~e.key THEN [ok |-> FALSE, error |-> "AnsibleError", read |-> TRUE]
        ELSE IF ~e.utf8 THEN [ok |-> FALSE, error |-> "UnicodeDecodeError", read |-> TRUE]
        ELSE [ok |-> TRUE, data |-> e.text, show_content |-> ~e.enc, read |-> TRUE]

----------------------------------------------------------------------------
(* path_dwim_relative.  Python 2 strings are byte strings or unicode       *)
(* strings: joining the two decodes the byte string as ASCII, which raises *)
(* UnicodeDecodeError when it holds other bytes.  path and source are      *)
(* ASCII byte strings here; dirname is ASCII and of either type (dUni);    *)
(* the working directory's name is a byte string that is not ASCII.        *)

\* a + b raises
ConcatRaises(a, aUni, b, bUni) ==
    /\ aUni # bUni
    /\ \/ (~aUni /\ ~IsAscii(a))
       \/ (~bUni /\ ~IsAscii(b))

\* os.path.join(a, b) raises; whether its result is unicode
JoinRaises(a, aUni, b, bUni) == ~StartsWith(b, "/") /\ ConcatRaises(a, aUni, b, bUni)
JoinIsUni(a, aUni, b, bUni) == IF StartsWith(b, "/") THEN bUni ELSE aUni \/ bUni

\* os.path.join(a, b, c) raises
Join3Raises(a, aUni, b, bUni, c, cUni) ==
    \/ JoinRaises(a, aUni, b, bUni)
    \/ JoinRaises(Join(a, b), JoinIsUni(a, aUni, b, bUni), c, cUni)

Tasks == << "tasks" >>

\* isrole
PdrIsRole(d, path) ==
    \/ EndsWith(path, Tasks) /\ Exists(d, Join(path, << "main.yml" >>))
    \/ Exists(d, Join(path, << "tasks", "/", "main.yml" >>))

\* the local basedir: the role's or the play's base path
PdrBasedirAlwaysParent(d, path) ==
    IF EndsWith(path, Tasks) THEN Unfrackpath(Dirname(path)) ELSE Unfrackpath(path)

PdrBasedir(d, path) ==
    IF PdrIsRole(d, path) /\ EndsWith(path, Tasks)
    THEN Unfrackpath(Dirname(path))
    ELSE Unfrackpath(path)

IsFullPath(source) == StartsWith(source, "~") \/ StartsWith(source, "/")

\* the list search; bd is _basedir at the call
PdrSearchTasksFirst(d, bd, path, dirname, source) ==
    IF IsFullPath(source) THEN << PathDwim(bd, source) >>
    ELSE LET rb  == PdrBasedir(d, path)
             tmp == SetBasedirValue(bd, Some(rb))
             cur == SetBasedirValue(tmp, Some(bd))
         IN  << Join3(path, dirname, source) >>
             \o (IF PdrIsRole(d, path) /\ ~EndsWith(source, dirname)
                 THEN << PathDwim(cur, Join3(rb, Tasks, source)) >> ELSE << >>)
             \o << PathDwim(tmp, Join3(rb, dirname, source)),
                   PathDwim(cur, Join(dirname, source)),
                   PathDwim(cur, Join(rb, source)),
                   PathDwim(cur, source) >>

PdrSearchNoShortcut(d, bd, path, dirname, source) ==
    LET rb  == PdrBasedir(d, path)
        tmp == SetBasedirValue(bd, Some(rb))
        cur == SetBasedirValue(tmp, Some(bd))
    IN  (IF IsFullPath(source) THEN << >> ELSE << Join3(path, dirname, source) >>)
        \o << PathDwim(tmp, Join3(rb, dirname, source)) >>
        \o (IF PdrIsRole(d, path) /\ ~EndsWith(source, dirname)
            THEN << PathDwim(cur, Join3(rb, Tasks, source)) >> ELSE << >>)
        \o << PathDwim(cur, Join(dirname, source)),
              PathDwim(cur, Join(rb, source)),
              PathDwim(cur, source) >>

PdrSearch(d, bd, path, dirname, source) ==
    IF IsFullPath(source) THEN << PathDwim(bd, source) >>
    ELSE LET rb  == PdrBasedir(d, path)
             tmp == SetBasedirValue(bd, Some(rb))
             cur == SetBasedirValue(tmp, Some(bd))
         IN  << Join3(path, dirname, source),
                PathDwim(tmp, Join3(rb, dirname, source)) >>
             \o (IF PdrIsRole(d, path) /\ ~EndsWith(source, dirname)
                 THEN << PathDwim(cur, Join3(rb, Tasks, source)) >> ELSE << >>)
             \o << PathDwim(cur, Join(dirname, source)),
                   PathDwim(cur, Join(rb, source)),
                   PathDwim(cur, source) >>

\* the loop over search: the first candidate that exists, the last one
\* when none does
PdrPick(d, search) ==
    LET hits == { i \in 1..Len(search) : Exists(d, search[i]) }
    IN  IF hits = {} THEN search[Len(search)]
        ELSE search[CHOOSE i \in hits : \A j \in hits : i <= j]

\* One call: how it ends ("return", or "raise" with the line that raised),
\* the value of _basedir it leaves, the number of set_basedir calls it made,
\* and, when it returns, search and the candidate returned.
PathDwimRelative(d, bd, path, dirname, dUni, source) ==
    LET rb == PdrBasedir(d, path)
    IN  IF IsFullPath(source)
        THEN LET search == PdrSearch(d, bd, path, dirname, source)
             IN  [out |-> "return", basedir |-> bd, sets |-> 0,
                  search |-> search, result |-> PdrPick(d, search)]
        ELSE IF Join3Raises(path, FALSE, dirname, dUni, source, FALSE)
        THEN [out |-> "raise", line |-> 217, basedir |-> bd, sets |-> 0]
        ELSE IF Join3Raises(rb, FALSE, dirname, dUni, source, FALSE)
        THEN [out |-> "raise", line |-> 231,
              basedir |-> SetBasedirValue(bd, Some(rb)), sets |-> 1]
        ELSE LET search == PdrSearch(d, bd, path, dirname, source)
             IN  [out |-> "return",
                  basedir |-> SetBasedirValue(SetBasedirValue(bd, Some(rb)), Some(bd)),
                  sets |-> 2, search |-> search, result |-> PdrPick(d, search)]

----------------------------------------------------------------------------
(* The state machine.  last is the record of the last call: the method,    *)
(* its arguments and what it returned or raised.                           *)

Templates == << "templates" >>
IndexJ2   == << "index.j2" >>

GivenRel    == << "a.yml" >>
GivenAbs    == FileA
GivenQuoted == << "'", "a.yml", "'" >>
GivenDots   == PlayDir \o << "/", "..", "/", "play", "/", "a.yml" >>
GivenHome   == << "~", "/", "a.yml" >>
GivenUser   == << "~", "nouser", "/", "a.yml" >>
GivenRelX   == << "rel", "/", "x" >>

Givens     == { GivenRel, GivenAbs, GivenQuoted, GivenDots, GivenHome, GivenUser,
                GivenRelX }
LoadGivens == { GivenRel, GivenAbs, GivenDots }

BasedirArgs == { None, Some(PlayDir) }

SourceHome == << "~", "/", "x" >>
SourceSub  == << "sub", "/", "templates" >>

PdrPaths   == { TasksDir, RoleDir, MyTasksDir, << "." >> }
PdrSources == { IndexJ2, Motd, SourceHome, SourceSub }
PdrArgs    ==
    { << p, Templates, FALSE, s >> : p \in PdrPaths, s \in PdrSources }
    \cup { << p, Templates, TRUE, IndexJ2 >> : p \in { TasksDir, << "." >> } }
PdrArgsFew == { << TasksDir, Templates, FALSE, IndexJ2 >> }

\* what the environment writes
ContentsA ==
    { Absent,
      Plain(TJson(1)), Plain(TBad(0, 0)),
      Vault(TYaml(2)), Vault(TBad(0, 0)),
      File(FALSE, FALSE, TRUE, TRUE, TJson(1)),
      File(TRUE, TRUE, FALSE, TRUE, TJson(1)),
      File(TRUE, FALSE, TRUE, FALSE, TJson(1)) }
DataWrites   == { << FileA, c >> : c \in ContentsA }
LayoutWrites == { << f, c >> : f \in LayoutFiles, c \in { Absent, Plain(TYaml(1)) } }

Init ==
    /\ basedir = << "." >>
    /\ cache = << >>
    /\ heap = << >>
    /\ held = {}
    /\ disk = [f \in AllFiles |->
                 IF f = FileA THEN Plain(TJson(1))
                 ELSE IF f = FileW THEN Plain(TYaml(2))
                 ELSE IF f \in { TasksMain, RoleTmpl } THEN Plain(TYaml(1))
                 ELSE Absent]
    /\ opened = {}
    /\ last = [op |-> "init"]

\* load(data): the document returned is the caller's alone, nothing of the
\* loader refers to it
LoadCall(data) ==
    /\ last' = [op |-> "load", data |-> data, res |-> LoadData(data, StringName, TRUE)]
    /\ UNCHANGED << basedir, cache, heap, held, disk, opened >>

\* file_name in self._FILE_CACHE
IsCachedNever(c, file_name) == FALSE

IsCached(c, file_name) == file_name \in DOMAIN c

\* load_from_file(given): the caller keeps the document returned
LoadFromFileCall(given) ==
    LET file_name == PathDwim(basedir, given)
        hit == IsCached(cache, file_name)
        e   == Entry(disk, file_name)
        got == GetFileContents(disk, basedir, file_name)
        res == IF got.ok THEN LoadData(got.data, file_name, got.show_content) ELSE got
        rec == [op |-> "load_from_file", file |-> file_name, hit |-> hit,
                again |-> file_name \in opened]
    IN  IF hit
        THEN /\ Cardinality(held) < MaxHeld
             /\ HasRoom(heap, 1 + Len(heap[cache[file_name]]))
             /\ LET copy == DeepCopy(heap, cache[file_name])
                IN  /\ heap' = copy[1]
                    /\ held' = held \cup { copy[2] }
                    /\ last' = rec @@ [read |-> FALSE, ok |-> TRUE, ret |-> copy[2]]
             /\ UNCHANGED << basedir, cache, disk, opened >>
        ELSE /\ opened' = IF got.read THEN opened \cup { file_name } ELSE opened
             /\ IF res.ok
                THEN /\ Cardinality(held) < MaxHeld
                     /\ HasRoom(heap, 4)
                     /\ LET new  == NewDoc(heap, res.v)
                            copy == DeepCopy(new[1], new[2])
                        IN  /\ cache' = (file_name :> new[2]) @@ cache
                            /\ heap' = copy[1]
                            /\ held' = held \cup { copy[2] }
                            /\ last' = rec @@ [read |-> TRUE, ok |-> TRUE, ret |-> copy[2],
                                               enc |-> e.enc, got |-> got]
                ELSE /\ last' = rec @@ [read |-> got.read, ok |-> FALSE, ret |-> 0,
                                        enc |-> (got.read /\ e.enc), got |-> got, res |-> res]
                     /\ UNCHANGED << cache, heap, held >>
             /\ UNCHANGED << basedir, disk >>

\* set_basedir(b)
SetBasedirCall(b) ==
    /\ basedir' = SetBasedirValue(basedir, b)
    /\ last' = [op |-> "set_basedir", arg |-> b]
    /\ UNCHANGED << cache, heap, held, disk, opened >>

\* path_dwim(given)
PathDwimCall(given) ==
    /\ last' = [op |-> "path_dwim", given |-> given, result |-> PathDwim(basedir, given)]
    /\ UNCHANGED << basedir, cache, heap, held, disk, opened >>

\* path_exists(path), is_file(path), is_directory(path), list_directory(path)
PathExistsCall(path) ==
    /\ last' = [op |-> "path_exists", path |-> path, result |-> PathExists(disk, basedir, path)]
    /\ UNCHANGED << basedir, cache, heap, held, disk, opened >>

IsFileCall(path) ==
    /\ last' = [op |-> "is_file", path |-> path, result |-> IsFile(disk, basedir, path)]
    /\ UNCHANGED << basedir, cache, heap, held, disk, opened >>

IsDirectoryCall(path) ==
    /\ last' = [op |-> "is_directory", path |-> path, result |-> IsDirectory(disk, basedir, path)]
    /\ UNCHANGED << basedir, cache, heap, held, disk, opened >>

ListDirectoryCall(path) ==
    /\ last' = [op |-> "list_directory", path |-> path, res |-> ListDirectory(disk, basedir, path)]
    /\ UNCHANGED << basedir, cache, heap, held, disk, opened >>

\* path_dwim_relative(path, dirname, source)
PathDwimRelativeCall(path, dirname, dUni, source) ==
    LET run == PathDwimRelative(disk, basedir, path, dirname, dUni, source)
    IN  /\ basedir' = run.basedir
        /\ last' = [op |-> "path_dwim_relative", path |-> path, dirname |-> dirname,
                    source |-> source, run |-> run]
        /\ UNCHANGED << cache, heap, held, disk, opened >>

\* the environment writes, creates or removes a file
WriteFile(f, c) ==
    /\ disk[f] # c
    /\ disk' = [disk EXCEPT ![f] = c]
    /\ last' = [op |-> "env"]
    /\ UNCHANGED << basedir, cache, heap, held, opened >>

\* a caller changes a document it was given, in an inner list
Mutate(r) ==
    /\ r \in held
    /\ heap' = [heap EXCEPT ![heap[r][1]] = << 0 >>]
    /\ last' = [op |-> "env"]
    /\ UNCHANGED << basedir, cache, held, disk, opened >>

\* a caller drops a document it was given
Discard(r) ==
    /\ r \in held
    /\ held' = held \ { r }
    /\ heap' = Collect(heap, Range(cache) \cup held')
    /\ last' = [op |-> "env"]
    /\ UNCHANGED << basedir, cache, disk, opened >>

\* One loader over files that change, with callers that keep, change and
\* drop the documents they are given.
Next ==
    \/ \E given \in LoadGivens : LoadFromFileCall(given)
    \/ \E b \in BasedirArgs : SetBasedirCall(b)
    \/ \E data \in { TBadNoMark } : LoadCall(data)
    \/ \E given \in { GivenRel } : PathDwimCall(given)
    \/ \E path \in { GivenRel } : PathExistsCall(path)
    \/ \E a \in PdrArgsFew : PathDwimRelativeCall(a[1], a[2], a[3], a[4])
    \/ \E w \in DataWrites : WriteFile(w[1], w[2])
    \/ \E r \in Ids : Mutate(r)
    \/ \E r \in Ids : Discard(r)

Spec == Init /\ [][Next]_vars

\* path_dwim_relative over every layout of the role and the play.
NextPath ==
    \/ \E b \in BasedirArgs : SetBasedirCall(b)
    \/ \E a \in PdrArgs : PathDwimRelativeCall(a[1], a[2], a[3], a[4])
    \/ \E w \in LayoutWrites : WriteFile(w[1], w[2])

SpecPath == Init /\ [][NextPath]_vars

\* path_dwim, the path predicates and load over every given path and text,
\* with a cache that holds documents.
NextDwim ==
    \/ \E b \in BasedirArgs : SetBasedirCall(b)
    \/ \E given \in Givens : PathDwimCall(given)
    \/ \E data \in Texts : LoadCall(data)
    \/ \E given \in LoadGivens : LoadFromFileCall(given)
    \/ \E path \in { GivenRel, PlayDir } : PathExistsCall(path)
    \/ \E path \in { GivenRel, PlayDir } : IsFileCall(path)
    \/ \E path \in { GivenRel, PlayDir } : IsDirectoryCall(path)
    \/ \E path \in { GivenRel, PlayDir } : ListDirectoryCall(path)
    \/ \E r \in Ids : Discard(r)

SpecDwim == Init /\ [][NextDwim]_vars

----------------------------------------------------------------------------
(* Properties.                                                             *)

IsLoadFromFile == last.op = "load_from_file"
IsPdr          == last.op = "path_dwim_relative"

\* an absolute path in normal form: "/" or "/c1/c2/..." with no empty, "."
\* or ".." component
IsNormalAbs(s) ==
    /\ StartsWith(s, "/")
    /\ \/ s = << "/" >>
       \/ /\ s[Len(s)] # "/"
          /\ \A i \in 1..(Len(s) - 1) : ~(s[i] = "/" /\ s[i + 1] = "/")
          /\ \A i \in 1..Len(s) : s[i] \notin { ".", ".." }

\* the value a caller's change leaves in a document
Changed == << << 0 >> >>

\* C1: every document load_from_file returns, on a cache miss as on a hit,
\* has the value of the cache entry of its path and shares no list with the
\* cache entry or with any other returned document; and no change a caller
\* makes to a returned document shows in a cache entry.
C1_ReturnedDocumentsAreIndependent ==
    /\ \A p \in DOMAIN cache : \A r \in held :
          Reach(heap, cache[p]) \cap Reach(heap, r) = {}
    /\ \A r1 \in held : \A r2 \in held \ { r1 } :
          Reach(heap, r1) \cap Reach(heap, r2) = {}
    /\ \A p \in DOMAIN cache : DocVal(heap, cache[p]) \in { << << 1 >> >>, << << 2 >> >> }
    /\ (IsLoadFromFile /\ last.ok) =>
          /\ last.ret \in held
          /\ DocVal(heap, last.ret) = DocVal(heap, cache[last.file])

\* a caller changed a document of /play/a.yml and keeps it, and a later
\* load_from_file of that path returned the cached value
C1_Witness ==
    /\ IsLoadFromFile /\ last.ok /\ last.hit /\ last.file = FileA
    /\ DOMAIN cache = { FileA }
    /\ \E r \in held : DocVal(heap, r) = Changed
    /\ DocVal(heap, last.ret) # Changed

\* C3: no file is read twice: a load_from_file that reads a file reads one
\* that no earlier load_from_file has read.
C3_FileReadAtMostOnce == (IsLoadFromFile /\ last.read) => ~last.again

\* C4: a step keeps every cache entry, the same document with the same
\* value; an entry appears only for the path of a load_from_file that
\* missed, read the file and succeeded; a load_from_file that fails leaves
\* the cache as it was; a hit returns the entry's value, whatever the file
\* holds by then.
C4_CacheOnlyGrowsOnSuccess ==
    [][ /\ \A p \in DOMAIN cache :
              /\ p \in DOMAIN cache'
              /\ cache'[p] = cache[p]
              /\ DocVal(heap', cache'[p]) = DocVal(heap, cache[p])
        /\ \A p \in DOMAIN cache' \ DOMAIN cache :
              /\ last'.op = "load_from_file" /\ last'.file = p
              /\ last'.ok /\ ~last'.hit /\ last'.read
        /\ (last'.op = "load_from_file" /\ ~last'.ok) => cache' = cache
        /\ (last'.op = "load_from_file" /\ last'.ok /\ last'.hit) =>
              DocVal(heap', last'.ret) = DocVal(heap, cache[last'.file])
      ]_vars

\* /play/a.yml was cached with [[1]], is gone from the disk, and a
\* load_from_file of it has returned [[1]]
C4_Witness ==
    /\ IsLoadFromFile /\ last.ok /\ last.hit /\ last.file = FileA
    /\ disk[FileA] = Absent
    /\ DocVal(heap, last.ret) = << << 1 >> >>

\* C7: when load_from_file read a file, _get_file_contents returned
\* show_content = FALSE exactly when the bytes were vault-encrypted, and a
\* parser error raised for the file carries that show_content.
C7_VaultContentNeverShown ==
    (IsLoadFromFile /\ last.read /\ last.got.ok) =>
        /\ last.got.show_content = ~last.enc
        /\ ~last.ok =>
              /\ last.res.error = "AnsibleParserError"
              /\ last.res.show_content = ~last.enc

\* an encrypted file decrypted to text that does not parse
C7_Witness ==
    /\ IsLoadFromFile /\ last.read /\ last.got.ok /\ ~last.ok
    /\ last.enc /\ ~last.res.show_content

\* C2: a call of path_dwim_relative leaves _basedir as it found it,
\* however the call ends.
C2_BasedirRestoredOnEveryExit ==
    [][ last'.op = "path_dwim_relative" => basedir' = basedir ]_vars

\* the role or play base the spec's sentences name, from the disk alone
RoleHas(d, file) == Entry(d, file).k = "file"
SpecIsRole(d, path) ==
    \/ EndsWith(path, Tasks) /\ RoleHas(d, path \o << "/", "main.yml" >>)
    \/ RoleHas(d, path \o << "/", "tasks", "/", "main.yml" >>)
SpecBase(d, path) ==
    IF SpecIsRole(d, path) /\ EndsWith(path, Tasks)
    THEN Unfrackpath(Dirname(path))
    ELSE Unfrackpath(path)

\* the candidates of a relative source, in the order of the search
Candidates(d, bd, path, dirname, source) ==
    LET rb == SpecBase(d, path)
    IN  << Join3(path, dirname, source),
           PathDwim(bd, Join3(rb, dirname, source)) >>
        \o (IF SpecIsRole(d, path) /\ ~EndsWith(source, dirname)
            THEN << PathDwim(bd, Join3(rb, Tasks, source)) >> ELSE << >>)
        \o << PathDwim(bd, Join(dirname, source)),
              PathDwim(bd, Join(rb, source)),
              PathDwim(bd, source) >>

\* C5: a call of path_dwim_relative with a relative source that returns
\* has searched, in this order: path/dirname/source as given, the role or
\* play base with dirname, the role base with tasks (only for a role, and
\* only when source does not end with dirname), dirname/source, the base
\* with source, and source, the last five made absolute by path_dwim; it
\* returns the first candidate that exists and the last one when none does.
C5_SearchOrderAndPick ==
    (IsPdr /\ ~IsFullPath(last.source) /\ last.run.out = "return") =>
        LET search == last.run.search
            hits   == { i \in 1..Len(search) : Exists(disk, search[i]) }
        IN  /\ search = Candidates(disk, basedir, last.path, last.dirname, last.source)
            /\ Len(search) \in { 5, 6 }
            /\ \A i \in hits :
                  (\A j \in hits : i <= j) => last.run.result = search[i]
            /\ hits = {} => last.run.result = search[Len(search)]

\* none of the six candidates of a role exists: the last one is returned
C5_Witness ==
    /\ IsPdr /\ ~IsFullPath(last.source) /\ last.run.out = "return"
    /\ Len(last.run.search) = 6
    /\ \A i \in 1..6 : ~Exists(disk, last.run.search[i])
    /\ last.run.result = last.run.search[6]
    /\ last.run.result # last.run.search[1]

\* C6: a call of path_dwim_relative whose source starts with "/" or "~"
\* returns path_dwim(source), the only candidate, whether or not it exists
\* and whatever path, dirname and the base directory are; it does not call
\* set_basedir and leaves _basedir alone; a normal absolute source comes
\* back as it is.
C6_FullPathShortcut ==
    [][ (last'.op = "path_dwim_relative" /\ IsFullPath(last'.source)) =>
            /\ last'.run.out = "return"
            /\ last'.run.search = << last'.run.result >>
            /\ last'.run.sets = 0
            /\ basedir' = basedir
            /\ \A bd \in { << "." >>, PlayDir, RoleDir } :
                  last'.run.result = PathDwim(bd, last'.source)
            /\ IsNormalAbs(last'.run.result)
            /\ IsNormalAbs(last'.source) => last'.run.result = last'.source
      ]_vars

\* /etc/motd, which does not exist, was asked for from a role with a
\* changed base directory, and returned
C6_Witness ==
    /\ IsPdr /\ last.source = Motd /\ last.run.result = Motd
    /\ ~Exists(disk, Motd)
    /\ last.path = TasksDir /\ Exists(disk, TasksMain)
    /\ basedir = PlayDir

\* the last path segment is the directory name tasks
LastSegmentIsTasks(path) ==
    LET parts == Split(path) IN parts # << >> /\ parts[Len(parts)] = Tasks

\* C10 as the spec states it: the base of the second candidate is the
\* parent of path whenever the last segment of path is tasks, path itself
\* otherwise.
C10_BaseIsParentOfTasksDir ==
    (IsPdr /\ ~IsFullPath(last.source) /\ last.run.out = "return") =>
        last.run.search[2] =
            Abspath(Join3(IF LastSegmentIsTasks(last.path)
                          THEN Unfrackpath(Dirname(last.path))
                          ELSE Unfrackpath(last.path),
                          last.dirname, last.source))

\* C10: the base of the second candidate is the parent of path exactly
\* when path, as a string, ends with "tasks" and is a role (path/main.yml
\* or path/tasks/main.yml exists); in every other case it is path itself,
\* made absolute.  A call from roles/web/tasks, which holds main.yml,
\* searches roles/web/templates/index.j2; without main.yml it searches
\* roles/web/tasks/templates/index.j2; from roles/web/mytasks with main.yml
\* it searches roles/web/templates/index.j2.
C10_BaseIsParentOnlyForRoleTasks ==
    (IsPdr /\ ~IsFullPath(last.source) /\ last.run.out = "return") =>
        LET second == last.run.search[2]
            here   == last.dirname = Templates /\ last.source = IndexJ2
        IN  /\ second = Abspath(Join3(SpecBase(disk, last.path),
                                      last.dirname, last.source))
            /\ (here /\ last.path = TasksDir /\ Exists(disk, TasksMain)) =>
                  second = RoleTmpl
            /\ (here /\ last.path = TasksDir /\ ~Exists(disk, TasksMain)) =>
                  second = TasksDir \o << "/" >> \o Templates \o << "/" >> \o IndexJ2
            /\ (here /\ last.path = MyTasksDir /\ Exists(disk, MyTasksMain)) =>
                  second = RoleTmpl
            /\ (here /\ last.path = MyTasksDir /\ ~Exists(disk, MyTasksMain)) =>
                  second = MyTasksDir \o << "/" >> \o Templates \o << "/" >> \o IndexJ2

\* roles/web/tasks without main.yml: the base is roles/web/tasks itself
C10_Witness ==
    /\ IsPdr /\ last.run.out = "return"
    /\ last.path = TasksDir /\ last.dirname = Templates /\ last.source = IndexJ2
    /\ ~Exists(disk, TasksMain)
    /\ last.run.search[2] = TasksDir \o << "/" >> \o Templates \o << "/" >> \o IndexJ2

\* C8 as the spec states it: a given that, without its quotes, starts with
\* "/" is returned unchanged.
C8_AbsoluteGivenReturnedUnchanged ==
    (last.op = "path_dwim" /\ StartsWith(Unquote(last.given), "/")) =>
        last.result = Unquote(last.given)

\* the base directory made absolute
AbsBase(bd) == IF StartsWith(bd, "/") THEN bd ELSE Normpath(Cwd \o << "/" >> \o bd)

\* C8: path_dwim changes nothing of the loader and returns a normal
\* absolute path, whether or not it exists.  With one layer of quotes
\* stripped from given: a given that starts with "/" is returned
\* normalised, so unchanged only if it was normal; "~/x" becomes x under the
\* home directory, and "~name/x" of an unknown user is kept and made
\* absolute in the working directory; any other given is joined to the
\* base directory, itself absolute in the working directory, and
\* normalised ("rel/x" under /play is /play/rel/x).
C8_PathDwimOnlyComputes ==
    [][ last'.op = "path_dwim" =>
            LET g == Unquote(last'.given)
                r == last'.result
            IN  /\ UNCHANGED << basedir, cache, heap, held, disk, opened >>
                /\ IsNormalAbs(r)
                /\ StartsWith(g, "/") =>
                      /\ r = Normpath(g)
                      /\ IsNormalAbs(g) => r = g
                /\ g = GivenHome => r = Home \o << "/", "a.yml" >>
                /\ g = GivenUser => r = Cwd \o << "/" >> \o GivenUser
                /\ ~IsFullPath(g) =>
                      /\ r = Normpath(AbsBase(basedir) \o << "/" >> \o g)
                      /\ (basedir = PlayDir /\ g = GivenRelX) =>
                            r = PlayDir \o << "/", "rel", "/", "x" >>
                /\ last'.given = GivenQuoted => r = AbsBase(basedir) \o << "/", "a.yml" >>
      ]_vars

\* /play/../play/a.yml resolved to /play/a.yml while the base directory is
\* /play and the cache holds a document
C8_Witness ==
    /\ last.op = "path_dwim" /\ last.given = GivenDots /\ last.result = FileA
    /\ basedir = PlayDir
    /\ cache # << >>

\* C9 as the spec states it: every failure of load carries a line and a
\* column.
C9_EveryParseErrorHasPosition ==
    (last.op = "load" /\ last.data.t = "bad") =>
        /\ ~last.res.ok
        /\ last.res.pos # NoPos

\* C9: load of a text that is neither JSON nor YAML raises
\* AnsibleParserError and returns nothing.  When the YAML error has a
\* problem mark, the error carries the source name, the mark's line plus 1
\* and the mark's column plus 1, both at least 1; when the YAML error has
\* no problem mark it carries no position.
C9_ParseErrorPositionFromMark ==
    (last.op = "load" /\ last.data.t = "bad") =>
        /\ ~last.res.ok
        /\ last.res.error = "AnsibleParserError"
        /\ last.data.marked =>
              /\ last.res.pos = << [file |-> StringName,
                                    line |-> last.data.line + 1,
                                    col  |-> last.data.col + 1] >>
              /\ last.res.pos[1].line >= 1
              /\ last.res.pos[1].col >= 1
        /\ ~last.data.marked => last.res.pos = NoPos

\* a YAML error marked at line 0, column MaxMark is reported at line 1,
\* column MaxMark + 1
C9_Witness ==
    /\ last.op = "load" /\ last.data = TBad(0, MaxMark)
    /\ ~last.res.ok
    /\ last.res.pos # NoPos
    /\ last.res.pos[1].line = 1 /\ last.res.pos[1].col = MaxMark + 1

====
